---- MODULE Spec2Model ----
(***************************************************************************)
(* GATT client service discovery of nrf-softdevice                         *)
(* (nrf-softdevice/src/ble/gatt_client.rs).                                *)
(*                                                                         *)
(* One connection, one peer GATT server and one task that calls discover.  *)
(* The task runs discover step by step; the SoftDevice event handlers      *)
(* (on_*_disc_rsp, the disconnection) run in interrupt context and may be  *)
(* dispatched between any two steps of the task.                           *)
(*                                                                         *)
(* The advertisement data builder                                          *)
(* (nrf-softdevice/src/ble/advertisement_builder.rs) is modelled next to   *)
(* it: AdvertisementData with write, raw, name, adapt_name and as_slice.   *)
(***************************************************************************)
EXTENDS Integers, Sequences, FiniteSets, TLC

\* ------------------------------------------------------------------------
\* Program constants

\* Attribute handles are u16 (Characteristic.handle_decl, handle_value).
U16Max == 65535

\* type DiscCharsMax = U6: capacity of one page of characteristics.
DiscCharsMax == 6

\* type DiscDescsMax = U6: capacity of one page of descriptors.
DiscDescsMax == 6

\* const STD_LEN: usize = 31: the buffer of StandardAdvertisementData.
STD_LEN == 31

\* enum ADType: Flags = 0x01, and counted on from it ShortName, FullName.
Flags == 1
ShortName == 8
FullName == 9

\* ------------------------------------------------------------------------
\* Bounds of the model

\* Largest number of characteristics of a generated service.
MaxChars == 7

\* Up to MaxMixed characteristics every combination of descriptor counts is
\* generated; longer services carry no descriptor, or one descriptor after
\* every characteristic.
MaxMixed == 2

\* Largest number of descriptors that follow one characteristic value.
MaxGap == 2

\* Largest number of unused handles between the last attribute of a service
\* and its end handle.
MaxTail == 1

\* Largest number of fields written before the name.
MaxFields == 2

\* Largest number of data bytes of a field written before the name.
MaxData == 14

\* Largest number of bytes of a name.
MaxName == 4

\* ------------------------------------------------------------------------
\* The peer's attribute table

Min(a, b) == IF a <= b THEN a ELSE b

RECURSIVE SumTo(_, _)
\* gaps[1] + ... + gaps[i]
SumTo(gaps, i) == IF i = 0 THEN 0 ELSE gaps[i] + SumTo(gaps, i - 1)

\* The i-th characteristic of a service whose declaration is at handle
\* start: each characteristic is a declaration, its value right after it,
\* and gaps[i] descriptors.
CharAt(start, gaps, i) ==
    LET decl == start + 1 + 2 * (i - 1) + SumTo(gaps, i - 1)
    IN  [decl |-> decl, value |-> decl + 1]

\* A service at start with Len(gaps) characteristics and tail unused handles
\* before its end handle.
BuildTable(start, gaps, tail) ==
    LET n    == Len(gaps)
        last == start + 2 * n + SumTo(gaps, n)
        cs   == [i \in 1..n |-> CharAt(start, gaps, i)]
    IN  [services |-> << [start |-> start, end |-> last + tail] >>,
         chars    |-> cs,
         descs    |-> UNION { (cs[i].value + 1)..(cs[i].value + gaps[i]) : i \in 1..n }]

\* The same table moved up by d handles.
Shift(t, d) ==
    [services |-> [i \in 1..Len(t.services) |->
                     [start |-> t.services[i].start + d, end |-> t.services[i].end + d]],
     chars    |-> [i \in 1..Len(t.chars) |->
                     [decl |-> t.chars[i].decl + d, value |-> t.chars[i].value + d]],
     descs    |-> { h + d : h \in t.descs }]

\* The same table moved so that its service ends at the last handle, 0xFFFF.
TopAligned(t) == Shift(t, U16Max - t.services[1].end)

Layouts ==
    UNION { [1..n -> 0..MaxGap] : n \in 0..MaxMixed }
      \cup { [i \in 1..n |-> g] : n \in (MaxMixed + 1)..MaxChars, g \in {0, 1} }

LowTables == { BuildTable(1, gaps, tail) : gaps \in Layouts, tail \in 0..MaxTail }

\* Short services that end at the last handle, with at most one descriptor
\* after a characteristic.
TopTables ==
    { TopAligned(BuildTable(1, gaps, tail)) :
        gaps \in UNION { [1..n -> {0, 1}] : n \in 1..MaxMixed }, tail \in 0..MaxTail }

\* Service [1,20], characteristic A (decl 2, value 3) with the descriptor 4,
\* characteristic B (decl 5, value 6) with the descriptor 7.
ScenarioTable ==
    [services |-> << [start |-> 1, end |-> 20] >>,
     chars    |-> << [decl |-> 2, value |-> 3], [decl |-> 5, value |-> 6] >>,
     descs    |-> {4, 7}]

\* Value handle 10 followed by the declaration handle 15.
GapTable ==
    [services |-> << [start |-> 8, end |-> 16] >>,
     chars    |-> << [decl |-> 9, value |-> 10], [decl |-> 15, value |-> 16] >>,
     descs    |-> {11, 12}]

\* No service of the searched UUID.
NoServiceTable == [services |-> << >>, chars |-> << >>, descs |-> {}]

\* Two services of the searched UUID: the second one lies behind the first.
TwoServiceTable ==
    [services |-> << [start |-> 1, end |-> 4], [start |-> 5, end |-> 9] >>,
     chars    |-> << [decl |-> 2, value |-> 3], [decl |-> 6, value |-> 7] >>,
     descs    |-> {4, 8}]

Tables ==
    LowTables \cup TopTables
      \cup {ScenarioTable, GapTable, NoServiceTable, TwoServiceTable}

\* The tables of the behaviours checked for liveness: the short services.
LiveTables == { t \in Tables : Len(t.chars) <= MaxMixed }

\* ------------------------------------------------------------------------
\* Values

None == << >>
Some(x) == << x >>

NoErr == [kind |-> "None", code |-> "None"]
NoSvc == [start |-> 0, end |-> 0]

\* enum DiscoverError
Disconnected      == [kind |-> "Disconnected", code |-> "None"]
ServiceNotFound   == [kind |-> "ServiceNotFound", code |-> "None"]
ServiceIncomplete == [kind |-> "ServiceIncomplete", code |-> "None"]
Gatt(status)      == [kind |-> "Gatt", code |-> status]
Raw(code)         == [kind |-> "Raw", code |-> code]

\* Result<T, DiscoverError>, T a service or a Vec of records
OkSvc(s)   == [ok |-> TRUE, err |-> NoErr, svc |-> s, items |-> << >>]
OkItems(v) == [ok |-> TRUE, err |-> NoErr, svc |-> NoSvc, items |-> v]
Err(e)     == [ok |-> FALSE, err |-> e, svc |-> NoSvc, items |-> << >>]

\* enum PortalMessage, and the empty slot of a task that was not woken
NoMsg                      == [tag |-> "None", r |-> Err(NoErr)]
DiscoverService(r)         == [tag |-> "DiscoverService", r |-> r]

\* A page of characteristics signalled as a page of descriptors.
DiscoverCharacteristics_AsDescriptors(r) == [tag |-> "DiscoverDescriptors", r |-> r]

DiscoverCharacteristics(r) == [tag |-> "DiscoverCharacteristics", r |-> r]
DiscoverDescriptors(r)     == [tag |-> "DiscoverDescriptors", r |-> r]
DisconnectedMsg            == [tag |-> "Disconnected", r |-> Err(NoErr)]

NoReq == [kind |-> "None", start |-> 0, end |-> 0]
NoEvt == [kind |-> "None", status |-> "None", count |-> 0]

\* ------------------------------------------------------------------------
\* The peer server and the SoftDevice: the events a request may complete with

\* A status other than success and attribute-not-found.
OtherStatus == "AtterrInsufResources"

RECURSIVE SetToSeq(_)
\* The handles of S in ascending order.
SetToSeq(S) ==
    IF S = {} THEN << >>
    ELSE LET m == CHOOSE x \in S : \A y \in S : x <= y
         IN  << m >> \o SetToSeq(S \ {m})

\* The characteristics whose declaration lies in [start, end], ascending.
CharsIn(t, start, end) ==
    SelectSeq(t.chars, LAMBDA c : start <= c.decl /\ c.decl <= end)

\* The descriptors in [start, end], ascending.
DescsIn(t, start, end) == SetToSeq({ h \in t.descs : start <= h /\ h <= end })

\* The non-empty pages a server may cut from the attributes that remain, or
\* attribute-not-found when none remains; handle 0 is not a valid handle and
\* is answered with invalid-handle.  A page holds at most cap records: the
\* handlers panic (Vec::from_slice) on a longer one, which no behaviour here
\* contains.
PagedEvents(req, all, cap) ==
    IF req.start = 0 \/ req.start > req.end
    THEN { [status |-> "AtterrInvalidHandle", items |-> << >>] }
    ELSE IF all = << >>
    THEN { [status |-> "AtterrAttributeNotFound", items |-> << >>] }
    ELSE { [status |-> "Success", items |-> SubSeq(all, 1, k)] :
             k \in 1..Min(Len(all), cap) }

\* The failures any request may end with.
FailureEvents == { [status |-> OtherStatus, items |-> << >>] }

ServiceEvents(t) ==
    ( IF t.services = << >>
      THEN { [status |-> "AtterrAttributeNotFound", items |-> << >>],
             [status |-> "Success", items |-> << >>] }
      ELSE { [status |-> "Success", items |-> t.services] } )
      \cup FailureEvents

\* A successful page without any record breaks the protocol; a peer may
\* still send it.
CharEvents(t, req) ==
    PagedEvents(req, CharsIn(t, req.start, req.end), DiscCharsMax)
      \cup FailureEvents
      \cup { [status |-> "Success", items |-> << >>] }

DescEvents(t, req) ==
    PagedEvents(req, DescsIn(t, req.start, req.end), DiscDescsMax)
      \cup FailureEvents

\* ------------------------------------------------------------------------
\* AdvertisementData<K>

\* The buffer size of the instance: StandardAdvertisementData.
K == STD_LEN

\* x as u8
U8(x) == x % 256

\* AdvertisementData::new
new == [buf |-> [i \in 1..K |-> 0], ptr |-> 0]

\* AdvertisementData::write: the bytes are copied if they fit, ptr moves on
\* in any case.
write(self, data) ==
    LET end == self.ptr + Len(data)
    IN  [buf |-> IF end <= K
                 THEN [i \in 1..K |-> IF self.ptr < i /\ i <= end
                                      THEN data[i - self.ptr] ELSE self.buf[i]]
                 ELSE self.buf,
         ptr |-> self.ptr + Len(data)]

\* AdvertisementData::raw: the length byte and the type byte, then the data.
raw(self, ad, data) == write(write(self, << U8(U8(Len(data)) + 1), ad >>), data)

\* AdvertisementData::name
name(self, ad, str) == raw(self, ad, str)

\* Whether adapt_name takes the full name: if self.ptr + full_len <= K
FullNameFits(self, full) == self.ptr + Len(full) <= K

\* AdvertisementData::adapt_name
adapt_name(self, full, short) ==
    IF FullNameFits(self, full) THEN name(self, FullName, full) ELSE name(self, ShortName, short)

\* AdvertisementData::as_slice: Ok(&buf[..ptr]) or Err(Oversize { expected })
as_slice(self) ==
    IF self.ptr <= K
    THEN [ok |-> TRUE, slice |-> SubSeq(self.buf, 1, self.ptr), expected |-> 0]
    ELSE [ok |-> FALSE, slice |-> << >>, expected |-> self.ptr]

\* The names handed to adapt_name, as bytes: "F", "FF", ... and "S", "SS", ...
FullNames == { [i \in 1..n |-> 70] : n \in 0..MaxName }
ShortNames == { [i \in 1..n |-> 83] : n \in 0..MaxName }

\* The data of the fields written before the name.
FieldData == { [i \in 1..n |-> 0] : n \in 0..MaxData }

NotNamed == [by |-> "none", fit |-> FALSE]

\* ------------------------------------------------------------------------
\* State

VARIABLES
    table,          \* the peer's attribute table
    overflowChecks, \* the build panics on integer overflow (else it wraps)
    connected,      \* the connection state still holds a connection handle
    inflight,       \* requests the SoftDevice accepted and has not completed
    pending,        \* the request the SoftDevice accepted last
    portal,         \* gattc_portal: "None", or "Waiting" with a task in wait()
    inbox,          \* the message signal() handed to the task in wait()
    pc,             \* where the task is in discover
    result,         \* what discover returned
    svc,            \* discover: svc
    curr_handle,    \* discover: curr_handle
    prev_char,      \* discover: prev_char, None or Some(characteristic)
    page,           \* discover: what is left of chars in the for loop
    fin,            \* discover_inner: curr and next
    range,          \* discover_inner: start_handle and end_handle
    nreq,           \* history: requests this walk handed to the SoftDevice
    lastCharReq,    \* history: the last characteristic request of this walk
    log,            \* history: descriptor requests and Client calls of this walk
    evt,            \* history: the last event signalled to the waiting task
    dropped,        \* history: a completion was signalled with no task waiting
    faulted,        \* history: the link or the peer failed during this walk
    adv,            \* the AdvertisementData under construction
    fields,         \* history: the fields written before the name
    named           \* history: the name adapt_name wrote, and whether the
                    \* data fitted when it was called

builder == << adv, fields, named >>
env   == << table, overflowChecks, builder >>
link  == << connected, inflight, pending >>
rdv   == << portal, inbox >>
walk  == << svc, curr_handle, prev_char, page, fin, range >>
hist  == << nreq, lastCharReq, log, evt, dropped, faulted >>
vars  == << env, link, rdv, pc, result, walk, hist >>

NoResult      == [done |-> FALSE, ok |-> FALSE, err |-> NoErr]
OkResult      == [done |-> TRUE, ok |-> TRUE, err |-> NoErr]
ErrResult(e)  == [done |-> TRUE, ok |-> FALSE, err |-> e]

NoChar == [decl |-> 0, value |-> 0]
NoFin  == [curr |-> NoChar, next |-> None]
NoRange == [start |-> 0, end |-> 0]

\* Entries of log
DescReq(start, end)  == [ev |-> "descriptors_discover", a |-> start, b |-> end, descs |-> << >>]
CharCall(c, descs)   == [ev |-> "discovered_characteristic", a |-> c.decl, b |-> c.value, descs |-> descs]
CompleteCall         == [ev |-> "discovery_complete", a |-> 0, b |-> 0, descs |-> << >>]

\* A build with overflow checks panics only where the arithmetic overflows:
\* a table that stays below the last handle behaves the same in both builds.
Builds(t) ==
    IF \E i \in 1..Len(t.chars) : t.chars[i].value = U16Max THEN BOOLEAN ELSE {FALSE}

InitBuilder ==
    /\ adv = new
    /\ fields = 0
    /\ named = NotNamed

InitWith(tables) ==
    /\ InitBuilder
    /\ table \in tables
    /\ overflowChecks \in Builds(table)
    /\ connected = TRUE
    /\ inflight = 0
    /\ pending = NoReq
    /\ portal = "None"
    /\ inbox = NoMsg
    /\ pc = "idle"
    /\ result = NoResult
    /\ svc = NoSvc
    /\ curr_handle = 0
    /\ prev_char = None
    /\ page = << >>
    /\ fin = NoFin
    /\ range = NoRange
    /\ nreq = 0
    /\ lastCharReq = NoReq
    /\ log = << >>
    /\ evt = NoEvt
    /\ dropped = FALSE
    /\ faulted = FALSE

Init == InitWith(Tables)

\* ------------------------------------------------------------------------
\* Helpers of the task's steps

\* discover returns Err(e): the ? operator.
Return(e) ==
    /\ pc' = "returned"
    /\ result' = ErrResult(e)

\* A panic: the task never returns.
Panic ==
    /\ pc' = "panicked"
    /\ result' = result

\* x + y on u16: the sum, and whether it overflows.
Add16(x, y) == (x + y) % (U16Max + 1)
Overflows16(x, y) == x + y > U16Max

\* x - y on u16.
Sub16(x, y) == (x - y + U16Max + 1) % (U16Max + 1)
Underflows16(x, y) == x - y < 0

\* An error code of the SoftDevice's synchronous return.
RawBusy == "NrfErrorBusy"

\* A step that hands its request to the SoftDevice twice.
SdCall_Twice(kind, start, end, issued) ==
    \/ /\ ~connected
       /\ Return(Disconnected)
       /\ UNCHANGED << link, nreq, faulted >>
    \/ /\ connected
       /\ nreq' = nreq + 2
       /\ inflight' = inflight + 2
       /\ pending' = [kind |-> kind, start |-> start, end |-> end]
       /\ pc' = issued
       /\ UNCHANGED << connected, result, faulted >>

\* A step that goes on to wait() whatever the SoftDevice returned.
SdCall_IgnoreReturn(kind, start, end, issued) ==
    \/ /\ ~connected
       /\ Return(Disconnected)
       /\ UNCHANGED << link, nreq, faulted >>
    \/ /\ connected
       /\ nreq' = nreq + 1
       /\ pc' = issued
       /\ result' = result
       /\ \/ /\ inflight' = inflight + 1
             /\ pending' = [kind |-> kind, start |-> start, end |-> end]
             /\ UNCHANGED << connected, faulted >>
          \/ /\ faulted' = TRUE
             /\ UNCHANGED link

\* state.check_connected()?, then the sd_ble_gattc_*_discover call and
\* RawError::convert(ret)?: the SoftDevice accepts the request or rejects it.
SdCall(kind, start, end, issued) ==
    \/ /\ ~connected
       /\ Return(Disconnected)
       /\ UNCHANGED << link, nreq, faulted >>
    \/ /\ connected
       /\ nreq' = nreq + 1
       /\ \/ /\ inflight' = inflight + 1
             /\ pending' = [kind |-> kind, start |-> start, end |-> end]
             /\ pc' = issued
             /\ UNCHANGED << connected, result, faulted >>
          \/ /\ Return(Raw(RawBusy))
             /\ faulted' = TRUE
             /\ UNCHANGED link

\* state.gattc_portal.wait(): the task becomes the portal's waiter.
PortalWait(from, to) ==
    /\ pc = from
    /\ portal' = "Waiting"
    /\ inbox' = NoMsg
    /\ pc' = to

Unreachable == [kind |-> "Unreachable", code |-> "None"]

\* A match without the arm for PortalMessage::Disconnected.
WaitArm_NoDisconnected(expected, msg) ==
    IF msg.tag = expected THEN msg.r ELSE Err(Unreachable)

\* match state.gattc_portal.wait().await { <expected>(r) => r,
\*   PortalMessage::Disconnected => Err(Disconnected), _ => unreachable!() }
WaitArm(expected, msg) ==
    IF msg.tag = expected THEN msg.r
    ELSE IF msg.tag = "Disconnected" THEN Err(Disconnected)
    ELSE Err(Unreachable)

\* The task is woken: signal() gave it a message.
Woken(at) ==
    /\ pc = at
    /\ inbox.tag # "None"

\* ------------------------------------------------------------------------
\* The task: discover

\* The Client of the walk: complete if and only if it has received at least
\* one discovered_characteristic call.
SeenCharacteristics(l) == Cardinality({ i \in 1..Len(l) : l[i].ev = "discovered_characteristic" })
ClientComplete(l) == SeenCharacteristics(l) >= 1

\* discover is called: now, or again after it returned.
Discover ==
    /\ pc \in {"idle", "returned"}
    /\ pc' = "svc_call"
    /\ result' = NoResult
    /\ inbox' = NoMsg
    /\ svc' = NoSvc
    /\ curr_handle' = 0
    /\ prev_char' = None
    /\ page' = << >>
    /\ fin' = NoFin
    /\ range' = NoRange
    /\ nreq' = 0
    /\ lastCharReq' = NoReq
    /\ log' = << >>
    /\ evt' = NoEvt
    /\ dropped' = FALSE
    /\ faulted' = ~connected
    /\ UNCHANGED << env, link, portal >>

\* discover_service up to the portal: check_connected and the request.
CallService ==
    /\ pc = "svc_call"
    /\ SdCall("service", 1, U16Max, "svc_issued")
    /\ UNCHANGED << env, rdv, walk, lastCharReq, log, evt, dropped >>

WaitService ==
    /\ PortalWait("svc_issued", "svc_wait")
    /\ UNCHANGED << env, link, result, walk, hist >>

\* A walk that does not reinterpret attribute-not-found at the service lookup.
ServiceOutcome_Unmapped(r) == r

\* discover: the match on discover_service's result.
ServiceOutcome(r) ==
    IF ~r.ok /\ r.err = Gatt("AtterrAttributeNotFound") THEN Err(ServiceNotFound) ELSE r

\* discover_service returns; discover takes the service's handle range.
ResumeService ==
    /\ Woken("svc_wait")
    /\ LET r == ServiceOutcome(WaitArm("DiscoverService", inbox))
       IN  IF r.ok
           THEN /\ svc' = r.svc
                /\ curr_handle' = r.svc.start
                /\ prev_char' = None
                /\ pc' = "loop"
                /\ result' = result
           ELSE /\ IF r.err = Unreachable THEN Panic ELSE Return(r.err)
                /\ UNCHANGED << svc, curr_handle, prev_char >>
    /\ UNCHANGED << env, link, rdv, page, fin, range, hist >>

\* while curr_handle < end_handle
WhileHead ==
    /\ pc = "loop"
    /\ pc' = IF curr_handle < svc.end THEN "chr_call" ELSE "last"
    /\ UNCHANGED << env, link, rdv, result, walk, hist >>

\* discover_characteristics up to the portal.
CallCharacteristics ==
    /\ pc = "chr_call"
    /\ SdCall("characteristics", curr_handle, svc.end, "chr_issued")
    /\ lastCharReq' = IF connected
                      THEN [kind |-> "characteristics", start |-> curr_handle, end |-> svc.end]
                      ELSE lastCharReq
    /\ UNCHANGED << env, rdv, walk, log, evt, dropped >>

WaitCharacteristics ==
    /\ PortalWait("chr_issued", "chr_wait")
    /\ UNCHANGED << env, link, result, walk, hist >>

\* A walk that takes attribute-not-found on a page for an error.
CharsOutcome_NotFoundIsError(r) == IF ~r.ok THEN "error" ELSE "page"

\* A walk that ends the paging loop on a disconnection too.
CharsOutcome_DisconnectBreaks(r) ==
    IF ~r.ok /\ r.err \in {Gatt("AtterrAttributeNotFound"), Disconnected} THEN "break"
    ELSE IF ~r.ok THEN "error"
    ELSE "page"

\* discover: the match on discover_characteristics' result: "break", an
\* error for ?, or the page.
CharsOutcome(r) ==
    IF ~r.ok /\ r.err = Gatt("AtterrAttributeNotFound") THEN "break"
    ELSE IF ~r.ok THEN "error"
    ELSE "page"

\* deassert!(cond): the step goes on if cond holds; if not, the task panics.
deassert(cond, go_on) == IF cond THEN go_on ELSE Panic

\* A walk that takes a page as it comes.
NonEmptyPage_Unchecked(chars) == TRUE

\* discover: chars.len() != 0
NonEmptyPage(chars) == Len(chars) # 0

\* discover_characteristics returns; deassert!(chars.len() != 0).
ResumeCharacteristics ==
    /\ Woken("chr_wait")
    /\ LET r == WaitArm("DiscoverCharacteristics", inbox)
           o == CharsOutcome(r)
       IN  \/ /\ o = "break"
              /\ pc' = "last"
              /\ UNCHANGED << result, page >>
           \/ /\ o = "error"
              /\ IF r.err = Unreachable THEN Panic ELSE Return(r.err)
              /\ page' = page
           \/ /\ o = "page"
              /\ deassert(NonEmptyPage(r.items), pc' = "for" /\ result' = result)
              /\ page' = IF NonEmptyPage(r.items) THEN r.items ELSE page
    /\ UNCHANGED << env, link, rdv, svc, curr_handle, prev_char, fin, range, hist >>

\* for curr in chars: the next characteristic of the page, or the page's end.
ForNext ==
    /\ pc = "for"
    /\ \/ /\ page = << >>
          /\ pc' = "loop"
          /\ fin' = fin
       \/ /\ page # << >>
          /\ prev_char # None
          /\ fin' = [curr |-> prev_char[1], next |-> Some(Head(page))]
          /\ pc' = "inner"
       \/ /\ page # << >>
          /\ prev_char = None
          /\ pc' = "advance"
          /\ fin' = fin
    /\ UNCHANGED << env, link, rdv, result, svc, curr_handle, prev_char, page, range, hist >>

\* A walk that pages on from two past the value handle.
NextHandle_TwoPast(curr) == Add16(curr.value, 2)

\* curr_handle = curr.handle_value + 1;
NextHandle(curr) == Add16(curr.value, 1)

\* prev_char = Some(curr); curr_handle = curr.handle_value + 1;
ForAdvance ==
    /\ pc = "advance"
    /\ LET curr == Head(page)
       IN  IF Overflows16(curr.value, 1) /\ overflowChecks
           THEN /\ Panic
                /\ UNCHANGED << prev_char, curr_handle, page >>
           ELSE /\ prev_char' = Some(curr)
                /\ curr_handle' = NextHandle(curr)
                /\ page' = Tail(page)
                /\ pc' = "for"
                /\ result' = result
    /\ UNCHANGED << env, link, rdv, svc, fin, range, hist >>

\* After the loop: if let Some(prev) = prev_char
AfterLoop ==
    /\ pc = "last"
    /\ IF prev_char # None
       THEN /\ fin' = [curr |-> prev_char[1], next |-> None]
            /\ pc' = "inner"
       ELSE /\ fin' = fin
            /\ pc' = "complete"
    /\ UNCHANGED << env, link, rdv, result, svc, curr_handle, prev_char, page, range, hist >>

\* A range that starts at the value handle itself.
InnerStart_AtValue(curr) == curr.value

\* discover_inner: let start_handle = curr.handle_value + 1;
InnerStart(curr) == Add16(curr.value, 1)

\* A range that ends at the next declaration handle itself.
InnerEnd_AtDecl(next, s) == IF next # None THEN next[1].decl ELSE s.end

\* A range that stops before the service's end handle.
InnerEnd_BeforeServiceEnd(next, s) ==
    IF next # None THEN Sub16(next[1].decl, 1) ELSE s.end - 1

\* discover_inner: let end_handle = next.map(|c| c.handle_decl - 1)
\*                                    .unwrap_or(svc.handle_range.end_handle);
InnerEnd(next, s) == IF next # None THEN Sub16(next[1].decl, 1) ELSE s.end

\* A walk that asks for descriptors whatever the range is.
RangeNonEmpty_Unchecked(start_handle, end_handle) == TRUE

\* discover_inner: if start_handle <= end_handle
RangeNonEmpty(start_handle, end_handle) == start_handle <= end_handle

\* A walk that runs the completeness check after any finalization.
AfterInner_Complete == "complete"

\* Where discover goes on when discover_inner returned Ok.
AfterInner == IF fin.next # None THEN "advance" ELSE "complete"

\* discover_inner up to the descriptor request: the range, and the call of
\* discovered_characteristic at once when the range is empty.
Inner ==
    /\ pc = "inner"
    /\ IF \/ Overflows16(fin.curr.value, 1) /\ overflowChecks
          \/ fin.next # None /\ Underflows16(fin.next[1].decl, 1) /\ overflowChecks
       THEN /\ Panic
            /\ UNCHANGED << range, log >>
       ELSE LET start_handle == InnerStart(fin.curr)
                end_handle   == InnerEnd(fin.next, svc)
            IN  /\ range' = [start |-> start_handle, end |-> end_handle]
                /\ result' = result
                /\ IF RangeNonEmpty(start_handle, end_handle)
                   THEN /\ pc' = "dsc_call"
                        /\ log' = log
                   ELSE /\ pc' = AfterInner
                        /\ log' = Append(log, CharCall(fin.curr, << >>))
    /\ UNCHANGED << env, link, rdv, svc, curr_handle, prev_char, page, fin,
                    nreq, lastCharReq, evt, dropped, faulted >>

\* discover_descriptors up to the portal.
CallDescriptors ==
    /\ pc = "dsc_call"
    /\ SdCall("descriptors", range.start, range.end, "dsc_issued")
    /\ log' = IF connected THEN Append(log, DescReq(range.start, range.end)) ELSE log
    /\ UNCHANGED << env, rdv, walk, lastCharReq, evt, dropped >>

WaitDescriptors ==
    /\ PortalWait("dsc_issued", "dsc_wait")
    /\ UNCHANGED << env, link, result, walk, hist >>

\* A walk that takes attribute-not-found for "no descriptor".
DescsOutcome_NotFoundIsEmpty(r) ==
    IF ~r.ok /\ r.err = Gatt("AtterrAttributeNotFound") THEN OkItems(<< >>) ELSE r

\* discover_inner: discover_descriptors(conn, start_handle, end_handle).await?
\* takes the result as it is.
DescsOutcome(r) == r

\* discover_descriptors returns; discover_inner collects the descriptors and
\* calls client.discovered_characteristic.
ResumeDescriptors ==
    /\ Woken("dsc_wait")
    /\ LET r == DescsOutcome(WaitArm("DiscoverDescriptors", inbox))
       IN  IF r.ok
           THEN /\ log' = Append(log, CharCall(fin.curr, r.items))
                /\ pc' = AfterInner
                /\ result' = result
           ELSE /\ IF r.err = Unreachable THEN Panic ELSE Return(r.err)
                /\ log' = log
    /\ UNCHANGED << env, link, rdv, walk, nreq, lastCharReq, evt, dropped, faulted >>

\* client.discovery_complete()?; Ok(client)
Complete ==
    /\ pc = "complete"
    /\ log' = Append(log, CompleteCall)
    /\ pc' = "returned"
    /\ result' = IF ClientComplete(log) THEN OkResult ELSE ErrResult(ServiceIncomplete)
    /\ UNCHANGED << env, link, rdv, walk, nreq, lastCharReq, evt, dropped, faulted >>

\* ------------------------------------------------------------------------
\* The event handlers (interrupt context)

\* check_status: f() on success, else the status as a GattError.
check_status(status, f) == IF status = "Success" THEN f ELSE Err(Gatt(status))

\* A handler that takes the service reported last.
FirstService_TakesLast(v) == IF Len(v) = 0 THEN Err(ServiceNotFound) ELSE OkSvc(v[Len(v)])

\* on_prim_srvc_disc_rsp: the closure handed to check_status.
FirstService(v) == IF Len(v) = 0 THEN Err(ServiceNotFound) ELSE OkSvc(v[1])

\* Portal::signal: the message goes to the task in wait(), which is woken;
\* with no task in wait() it is dropped.
Signal(msg, e) ==
    IF portal = "Waiting"
    THEN /\ portal' = "None"
         /\ inbox' = msg
         /\ evt' = e
         /\ dropped' = dropped
    ELSE /\ UNCHANGED << portal, inbox, evt >>
         /\ dropped' = (dropped \/ msg.tag # "Disconnected")

\* The SoftDevice completes the request it accepted last.
Completes(kind) ==
    /\ connected
    /\ inflight > 0
    /\ pending.kind = kind
    /\ inflight' = inflight - 1
    /\ pending' = IF inflight = 1 THEN NoReq ELSE pending
    /\ connected' = connected

RawEvt(kind, e) == [kind |-> kind, status |-> e.status, count |-> Len(e.items)]

on_prim_srvc_disc_rsp ==
    /\ Completes("service")
    /\ \E e \in ServiceEvents(table) :
         /\ Signal(DiscoverService(check_status(e.status, FirstService(e.items))),
                   RawEvt("service", e))
         /\ faulted' = (faulted \/ e \in FailureEvents)
    /\ UNCHANGED << env, pc, result, walk, nreq, lastCharReq, log >>

on_char_disc_rsp ==
    /\ Completes("characteristics")
    /\ \E e \in CharEvents(table, pending) :
         /\ Signal(DiscoverCharacteristics(check_status(e.status, OkItems(e.items))),
                   RawEvt("characteristics", e))
         /\ faulted' = (faulted \/ e \in FailureEvents \/ e.status = "AtterrInvalidHandle"
                          \/ (e.status = "Success" /\ e.items = << >>))
    /\ UNCHANGED << env, pc, result, walk, nreq, lastCharReq, log >>

on_desc_disc_rsp ==
    /\ Completes("descriptors")
    /\ \E e \in DescEvents(table, pending) :
         /\ Signal(DiscoverDescriptors(check_status(e.status, OkItems(e.items))),
                   RawEvt("descriptors", e))
         /\ faulted' = (faulted \/ e \in FailureEvents \/ e.status = "AtterrInvalidHandle")
    /\ UNCHANGED << env, pc, result, walk, nreq, lastCharReq, log >>

\* The connection closes: the connection state loses its handle, the
\* SoftDevice drops what it had accepted, and the portal is signalled.
on_disconnected ==
    /\ connected
    /\ connected' = FALSE
    /\ inflight' = 0
    /\ pending' = NoReq
    /\ Signal(DisconnectedMsg, [kind |-> "disconnected", status |-> "None", count |-> 0])
    /\ faulted' = TRUE
    /\ UNCHANGED << env, pc, result, walk, nreq, lastCharReq, log >>

\* ------------------------------------------------------------------------
\* The system

TaskStep ==
    \/ CallService
    \/ WaitService
    \/ ResumeService
    \/ WhileHead
    \/ CallCharacteristics
    \/ WaitCharacteristics
    \/ ResumeCharacteristics
    \/ ForNext
    \/ ForAdvance
    \/ AfterLoop
    \/ Inner
    \/ CallDescriptors
    \/ WaitDescriptors
    \/ ResumeDescriptors
    \/ Complete

Completion ==
    \/ on_prim_srvc_disc_rsp
    \/ on_char_disc_rsp
    \/ on_desc_disc_rsp

Next ==
    \/ Discover
    \/ TaskStep
    \/ Completion
    \/ on_disconnected

Spec == Init /\ [][Next]_vars

\* The executor polls a task that was woken or can go on; the SoftDevice
\* completes every request it accepted, unless the connection closes first.
FairSpec ==
    InitWith(LiveTables) /\ [][Next]_vars /\ WF_vars(TaskStep) /\ WF_vars(Completion)

\* ------------------------------------------------------------------------
\* Building advertisement data

\* A field is written before the name.
AddField ==
    /\ named = NotNamed
    /\ fields < MaxFields
    /\ \E data \in FieldData : adv' = raw(adv, Flags, data)
    /\ fields' = fields + 1
    /\ UNCHANGED << table, overflowChecks, named, link, rdv, pc, result, walk, hist >>

\* adapt_name is called, last.
AdaptName ==
    /\ named = NotNamed
    /\ \E full \in FullNames, short \in ShortNames :
         /\ Len(short) <= Len(full)
         /\ adv' = adapt_name(adv, full, short)
         /\ named' = [by  |-> IF FullNameFits(adv, full) THEN "full" ELSE "short",
                      fit |-> (adv.ptr <= K)]
    /\ UNCHANGED << table, overflowChecks, fields, link, rdv, pc, result, walk, hist >>

BuilderNext ==
    \/ AddField
    \/ AdaptName

\* The builder alone: no walk takes place.
BuilderSpec == InitWith({NoServiceTable}) /\ [][BuilderNext]_vars

\* ------------------------------------------------------------------------
\* Properties

WaitPcs == {"svc_wait", "chr_wait", "dsc_wait"}
CallPcs == {"svc_call", "chr_call", "dsc_call"}

Returned(e) == pc = "returned" /\ result = ErrResult(e)

\* The characteristics of the discovered service, in the table's order.
ServiceChars == CharsIn(table, svc.start, svc.end)

\* The characteristics discovered_characteristic was called with, in order.
Reported(l) ==
    LET calls == SelectSeq(l, LAMBDA x : x.ev = "discovered_characteristic")
    IN  [i \in 1..Len(calls) |-> [decl |-> calls[i].a, value |-> calls[i].b]]

\* C1: once Disconnected was delivered to the task suspended in
\* discover_service, discover_characteristics or discover_descriptors, the
\* only thing the walk does is return Err(Disconnected): no step hands a
\* request to the SoftDevice or calls the Client any more.
C1_DisconnectedAbortsWalk ==
    /\ [](inbox.tag = "Disconnected" => (pc \in WaitPcs \/ Returned(Disconnected)))
    /\ [][inbox.tag = "Disconnected" /\ inbox'.tag = "Disconnected"
            => nreq' = nreq /\ log' = log]_vars

\* C1: discover returned Disconnected while it held back a characteristic,
\* after it had reported an earlier one.
C1_Witness ==
    /\ Returned(Disconnected)
    /\ inbox.tag = "Disconnected"
    /\ prev_char # None
    /\ Len(log) > 0
    /\ \A i \in 1..Len(log) : log[i].ev # "discovery_complete"

\* C2: when discover returns Ok, discovered_characteristic was called once
\* for every characteristic of the service, in the order of their handles,
\* which is strictly ascending.
C2_PaginationComplete ==
    (pc = "returned" /\ result.ok) =>
        /\ Reported(log) = ServiceChars
        /\ \A i, j \in 1..Len(Reported(log)) :
             i < j => Reported(log)[i].decl < Reported(log)[j].decl

\* C2: a service of more characteristics than one page holds was walked to
\* the end over pages that were not all full.
C2_Witness ==
    /\ pc = "returned"
    /\ result.ok
    /\ Len(ServiceChars) > DiscCharsMax
    /\ nreq > 12

\* C3: when the service lookup completed with success and no service, or
\* with attribute-not-found, discover returns ServiceNotFound after that one
\* request and without any call of the Client.
C3_ServiceNotFound ==
    ( /\ pc = "returned"
      /\ evt.kind = "service"
      /\ \/ evt.status = "Success" /\ evt.count = 0
         \/ evt.status = "AtterrAttributeNotFound" )
    => /\ result = ErrResult(ServiceNotFound)
       /\ nreq = 1
       /\ log = << >>

\* C3: the lookup completed with attribute-not-found and discover returned.
C3_Witness ==
    /\ Returned(ServiceNotFound)
    /\ evt.kind = "service"
    /\ evt.status = "AtterrAttributeNotFound"

\* C4: with a link and a peer that do not fail, discover returns
\* ServiceIncomplete for a service without characteristics and Ok for a
\* service with at least one.
C4_RoundTrip ==
    (pc = "returned" /\ ~faulted /\ ~dropped /\ table.services # << >>) =>
        IF Len(ServiceChars) = 0
        THEN result = ErrResult(ServiceIncomplete)
        ELSE result = OkResult

\* C5: at most one request is accepted and not completed, and the task
\* hands over a request only when none is.
C5_OneOutstanding ==
    /\ inflight <= 1
    /\ pc \in CallPcs => inflight = 0

\* C5: the descriptor request of a walk is outstanding, after its service
\* and characteristic requests completed.
C5_Witness ==
    /\ inflight = 1
    /\ pending.kind = "descriptors"
    /\ pc = "dsc_wait"
    /\ nreq >= 3

\* C6: no completion is signalled while no task waits on the portal.
C6_NoCompletionDropped == ~dropped

\* C7: when the connection closes while the task is suspended on the portal,
\* the task is handed Disconnected, and discover then returns Disconnected.
C7_CloseWakesWalk ==
    (inbox.tag = "Disconnected" /\ pc \in WaitPcs) ~> Returned(Disconnected)

\* C7: the connection closed while the task waited for a page of
\* characteristics, and the task was handed Disconnected.
C7_Witness ==
    /\ pc = "chr_wait"
    /\ inbox.tag = "Disconnected"
    /\ ~connected
    /\ portal = "None"

\* C8: every call of discover returns, if no completion was dropped and
\* neither the link nor the peer failed.
C8_DiscoverReturns ==
    (pc = "svc_call") ~> (pc = "returned" \/ dropped \/ faulted)

\* Whether the characteristic declared at decl is followed by another one
\* in the service, and which.
Position(decl) == CHOOSE k \in 1..Len(ServiceChars) : ServiceChars[k].decl = decl
HasNext(decl) == \E k \in 1..(Len(ServiceChars) - 1) : ServiceChars[k].decl = decl
IsLast(decl) == Len(ServiceChars) > 0 /\ ServiceChars[Len(ServiceChars)].decl = decl
NextOf(decl) == ServiceChars[Position(decl) + 1]

\* The characteristic the descriptor request log[i] was made for: the one
\* reported next, or the one discover_inner still holds.
RequestedFor(i) ==
    IF i < Len(log) THEN [decl |-> log[i + 1].a, value |-> log[i + 1].b] ELSE fin.curr

\* C9: a characteristic that is followed by another one is reported right
\* after the descriptor request over [value + 1, next declaration - 1], and
\* with no descriptor request and no descriptor when that range is empty;
\* and a descriptor request for such a characteristic covers that range.
C9_DescriptorRange ==
    /\ \A i \in 1..Len(log) :
         (log[i].ev = "discovered_characteristic" /\ HasNext(log[i].a)) =>
            IF NextOf(log[i].a).decl = log[i].b + 1
            THEN /\ log[i].descs = << >>
                 /\ (i > 1 => log[i - 1].ev # "descriptors_discover")
            ELSE /\ i > 1
                 /\ log[i - 1] = DescReq(log[i].b + 1, NextOf(log[i].a).decl - 1)
    /\ \A i \in 1..Len(log) :
         (log[i].ev = "descriptors_discover" /\ HasNext(RequestedFor(i).decl)) =>
            /\ log[i].a = RequestedFor(i).value + 1
            /\ log[i].b = NextOf(RequestedFor(i).decl).decl - 1

\* C9: the characteristic with the value handle 10, followed by the
\* declaration handle 15, was reported after the request over [11,14].
C9_Witness ==
    \E i \in 2..Len(log) :
        /\ log[i].ev = "discovered_characteristic"
        /\ log[i].b = 10
        /\ log[i - 1] = DescReq(11, 14)

\* The calls and descriptor requests of the walk of ScenarioTable.
ScenarioLog ==
    << DescReq(4, 4), CharCall([decl |-> 2, value |-> 3], << 4 >>),
       DescReq(7, 20), CharCall([decl |-> 5, value |-> 6], << 7 >>),
       CompleteCall >>

\* C10, the scenario: the walk of the service [1,20] with A (2,3) and
\* B (5,6) requests descriptors over [4,4], reports A, requests descriptors
\* over [7,20], reports B and runs the completeness check.
ScenarioWalk ==
    (table = ScenarioTable /\ pc = "returned" /\ result.ok) => log = ScenarioLog

\* C10, in general: a descriptor request for the last characteristic of the
\* service covers [value + 1, service end].
LastRange ==
    \A i \in 1..Len(log) :
        (log[i].ev = "descriptors_discover" /\ IsLast(RequestedFor(i).decl)) =>
            /\ log[i].a = RequestedFor(i).value + 1
            /\ log[i].b = svc.end

\* C10: the scenario's walk, and the range of the last characteristic's
\* descriptor search in every walk.
C10_ScenarioAndLastRange == ScenarioWalk /\ LastRange

\* C10: the scenario's walk returned Ok.
C10_Witness ==
    /\ table = ScenarioTable
    /\ pc = "returned"
    /\ result.ok
    /\ log = ScenarioLog

\* The requests over a handle range the connection's SoftDevice was handed
\* in this walk: the last characteristic request, the descriptor requests,
\* and the request that is outstanding.
RangedRequests ==
    { [start |-> lastCharReq.start, end |-> lastCharReq.end] }
      \cup { [start |-> log[i].a, end |-> log[i].b] :
                i \in { j \in 1..Len(log) : log[j].ev = "descriptors_discover" } }
      \cup { [start |-> pending.start, end |-> pending.end] :
                k \in { j \in {1} : pending.kind \in {"characteristics", "descriptors"} } }

\* C11: every characteristic request and every descriptor request handed to
\* the SoftDevice has start handle <= end handle, up to the handle 0xFFFF.
C11_RequestRangeOrdered ==
    \A r \in RangedRequests : r.start <= r.end /\ r.end <= U16Max

\* C11: past a value handle of 0xFFFF the build without overflow checks
\* asked for the characteristics over [0, 0xFFFF].
C11_Witness ==
    /\ ~overflowChecks
    /\ svc.end = U16Max
    /\ pc = "chr_wait"
    /\ pending = [kind |-> "characteristics", start |-> 0, end |-> U16Max]

\* The descriptors the server holds for the characteristic (decl, value) of
\* the service: those between its value and the next declaration, or the
\* service's end.
DescriptorsOf(decl, value) ==
    DescsIn(table, value + 1, IF HasNext(decl) THEN NextOf(decl).decl - 1 ELSE svc.end)

\* C12: every discovered_characteristic call carries all the descriptors the
\* server holds for that characteristic.
C12_FullDescriptorSet ==
    \A i \in 1..Len(log) :
        log[i].ev = "discovered_characteristic" =>
            log[i].descs = DescriptorsOf(log[i].a, log[i].b)

\* The last completion handed to the task is a descriptor request's
\* attribute-not-found.
DescriptorsNotFound ==
    evt.kind = "descriptors" /\ evt.status = "AtterrAttributeNotFound"

\* C13: once a descriptor request completed with attribute-not-found, the
\* walk only returns Gatt(attribute not found): the log ends with that
\* descriptor request (the characteristic is not reported, the completeness
\* check does not run) and no request is handed to the SoftDevice any more.
C13_DescriptorNotFoundPropagates ==
    /\ [](DescriptorsNotFound =>
            /\ pc = "dsc_wait" \/ Returned(Gatt("AtterrAttributeNotFound"))
            /\ log # << >>
            /\ log[Len(log)] = DescReq(fin.curr.value + 1, range.end)
            /\ inflight = 0)
    /\ [][DescriptorsNotFound /\ DescriptorsNotFound' => nreq' = nreq /\ log' = log]_vars

\* C13: discover returned Gatt(attribute not found) from the descriptor
\* request of a characteristic that it had held back.
C13_Witness ==
    /\ DescriptorsNotFound
    /\ Returned(Gatt("AtterrAttributeNotFound"))
    /\ prev_char # None
    /\ fin.curr = prev_char[1]

\* The task's step handed a request to the SoftDevice, which rejected it.
Rejection == pc \in CallPcs /\ nreq' = nreq + 1 /\ inflight' = inflight

\* The last completion handed to the task is a failure that the walk does
\* not reinterpret.
FailedCompletion ==
    /\ evt.kind \in {"service", "characteristics", "descriptors"}
    /\ evt.status # "Success"
    /\ ~(evt.kind \in {"service", "characteristics"} /\ evt.status = "AtterrAttributeNotFound")

\* C14: the step in which the SoftDevice rejects a request returns the raw
\* error with the rejection code, with no task in wait(); after a completion
\* with a failure the walk only returns Gatt(that status); and a walk that
\* returned an error hands over no request.
C14_FailuresEndTheWalk ==
    /\ [][Rejection => Returned(Raw(RawBusy))' /\ portal' = "None" /\ inbox' = inbox]_vars
    /\ [](FailedCompletion => (pc \in WaitPcs \/ Returned(Gatt(evt.status))))
    /\ [][(FailedCompletion /\ FailedCompletion') \/ (pc = "returned" /\ pc' # "svc_call")
            => nreq' = nreq]_vars

\* C14: the SoftDevice rejected the descriptor request of a walk, after it
\* had accepted the requests before, and discover returned the raw error.
C14_Witness ==
    /\ Returned(Raw(RawBusy))
    /\ range # NoRange
    /\ nreq >= 3
    /\ log = << DescReq(range.start, range.end) >>

\* C15: when the data fitted and adapt_name wrote the full name, the data
\* with the name fit: as_slice returns Ok.
C15_AdaptedFullNameFits ==
    (named.by = "full" /\ named.fit) => as_slice(adv).ok

\* discover_inner has computed the range of the characteristic fin.curr.
RangeComputed == range # NoRange /\ pc \notin {"inner", "panicked"}

\* C16, as stated: the range computed for a characteristic is
\* [value + 1, upper bound - 1], the upper bound being the next declaration
\* handle or, for the last characteristic, the service's end handle.
C16_RangeBelowUpperBound ==
    RangeComputed =>
        /\ range.start = fin.curr.value + 1
        /\ range.end = (IF fin.next # None THEN fin.next[1].decl ELSE svc.end) - 1

\* C16, amended: the range computed for a characteristic is
\* [value + 1, next declaration - 1] when another characteristic follows,
\* and [value + 1, service end] for the last one.
C16_FinalizeRange ==
    RangeComputed =>
        /\ range.start = fin.curr.value + 1
        /\ range.end = IF fin.next # None THEN fin.next[1].decl - 1 ELSE svc.end

\* C16: the last characteristic of a service of several is finalized after
\* the paging ended: its descriptors are asked for up to the service's end.
C16_Witness ==
    /\ pc = "dsc_wait"
    /\ fin.next = None
    /\ evt.kind = "characteristics" /\ evt.status = "AtterrAttributeNotFound"
    /\ Len(Reported(log)) >= 1
    /\ pending = [kind |-> "descriptors", start |-> fin.curr.value + 1, end |-> svc.end]

\* The last completion handed to the task is a page of characteristics that
\* ended with attribute-not-found, or with another status than success.
CharsNotFound == evt.kind = "characteristics" /\ evt.status = "AtterrAttributeNotFound"
CharsFailed ==
    evt.kind = "characteristics" /\ evt.status \notin {"Success", "AtterrAttributeNotFound"}

HeldBackReported ==
    prev_char # None /\ \E i \in 1..Len(Reported(log)) : Reported(log)[i] = prev_char[1]

CompleteCalled == \E i \in 1..Len(log) : log[i].ev = "discovery_complete"

\* C17: after a page ended with attribute-not-found the walk is past the
\* paging loop: it finalizes the held-back characteristic against the
\* service's end and runs the completeness check, and returns no error but
\* that of the check, of the link or of the SoftDevice; when the descriptor
\* request of that finalization succeeds, the characteristic is reported
\* and the check runs.  After a page ended with another failure the walk
\* only returns Gatt(that status), with the held-back characteristic not
\* reported and discovery_complete not called.
C17_PageOutcome ==
    /\ CharsNotFound =>
         /\ pc \in {"chr_wait", "last", "inner", "dsc_call", "dsc_issued", "dsc_wait",
                     "complete", "returned"}
         /\ pc \in {"inner", "dsc_call", "dsc_issued", "dsc_wait"} =>
                fin = [curr |-> prev_char[1], next |-> None]
         /\ pc = "complete" =>
                (prev_char # None => log[Len(log)] = CharCall(prev_char[1], << >>))
         /\ pc = "returned" =>
                \/ result \in {ErrResult(Disconnected), ErrResult(Raw(RawBusy))}
                \/ /\ result \in {OkResult, ErrResult(ServiceIncomplete)}
                   /\ log[Len(log)] = CompleteCall
                   /\ prev_char # None => log[Len(log) - 1] = CharCall(prev_char[1], << >>)
    /\ (evt.kind = "descriptors" /\ evt.status = "Success" /\ fin.next = None
          /\ pc = "returned") =>
         \/ result \in {ErrResult(Disconnected), ErrResult(Raw(RawBusy))}
         \/ /\ result = OkResult
            /\ log[Len(log)] = CompleteCall
            /\ log[Len(log) - 1].ev = "discovered_characteristic"
            /\ log[Len(log) - 1].b = prev_char[1].value
    /\ CharsFailed =>
         /\ pc = "chr_wait" \/ Returned(Gatt(evt.status))
         /\ ~HeldBackReported
         /\ ~CompleteCalled

\* C17: the paging loop of a walk was ended by attribute-not-found (the
\* loop's own condition still held), and the walk finalized the
\* characteristic it held back, ran the check and returned Ok.
C17_Witness ==
    /\ pc = "returned"
    /\ result = OkResult
    /\ curr_handle < svc.end
    /\ fin.next = None
    /\ HeldBackReported
    /\ log[Len(log)] = CompleteCall

\* How many characteristics of the service the for loop has put into
\* prev_char so far.
Taken == IF prev_char = None THEN 0 ELSE Position(prev_char[1].decl)

CompleteCalls == { i \in 1..Len(log) : log[i].ev = "discovery_complete" }

\* C18: the characteristics reported are those taken so far, in their
\* order, but for at most the one in prev_char; a characteristic that is
\* followed by another is reported only when the for loop holds that next
\* one; and discovery_complete is called at most once, last of all calls,
\* by a walk that then returns Ok or the check's ServiceIncomplete, and once
\* by every walk that returns so.
C18_HoldBackOne ==
    LET n == Len(Reported(log))
    IN  /\ n \in {Taken - 1, Taken} \cap (0..Taken)
        /\ Reported(log) = SubSeq(ServiceChars, 1, n)
        /\ (1 <= n /\ n < Len(ServiceChars)) =>
               \/ prev_char = Some(ServiceChars[n + 1])
               \/ /\ pc \in {"advance", "panicked"}
                  /\ prev_char = Some(ServiceChars[n])
                  /\ Head(page) = ServiceChars[n + 1]
        /\ Cardinality(CompleteCalls) <= 1
        /\ CompleteCalls # {} =>
               /\ CompleteCalls = {Len(log)}
               /\ pc = "returned"
               /\ n = Taken
               /\ result \in {OkResult, ErrResult(ServiceIncomplete)}
        /\ (pc = "returned" /\ result \in {OkResult, ErrResult(ServiceIncomplete)}) =>
               CompleteCalls # {}

\* C18: a walk reported three characteristics and more, one behind the
\* other, ran the check and returned Ok.
C18_Witness ==
    /\ pc = "returned"
    /\ result = OkResult
    /\ Len(Reported(log)) >= 3
    /\ log[Len(log)] = CompleteCall

\* The last completion handed to the task is a successful page of
\* characteristics with no record.
EmptyPage ==
    evt.kind = "characteristics" /\ evt.status = "Success" /\ evt.count = 0

\* C19: after a successful page without a record the walk stops: the task
\* panics, and no request, so no characteristic request over the same
\* range either, is handed to the SoftDevice.
C19_EmptyPageStopsWalk ==
    /\ [](EmptyPage => pc \in {"chr_wait", "panicked"})
    /\ [][EmptyPage /\ EmptyPage' =>
            nreq' = nreq /\ lastCharReq' = lastCharReq /\ log' = log]_vars

\* C19: the second page of a walk came without a record, and the task
\* panicked.
C19_Witness ==
    /\ EmptyPage
    /\ pc = "panicked"
    /\ prev_char # None
    /\ lastCharReq.start = curr_handle

\* C20: curr_handle never becomes smaller during a walk, and every
\* characteristic request of a walk starts above the one before it and ends
\* at the service's end handle.
C20_CurrentNeverWraps ==
    [][/\ pc \notin {"idle", "returned"} => curr_handle' >= curr_handle
       /\ (pc = "chr_call" /\ nreq' = nreq + 1) =>
            /\ lastCharReq'.end = svc.end
            /\ lastCharReq'.start = curr_handle
            /\ lastCharReq # NoReq => lastCharReq'.start > lastCharReq.start]_vars

\* The last completion handed to the task is a service lookup that reported
\* more than one service.
SeveralServices == evt.kind = "service" /\ evt.status = "Success" /\ evt.count > 1

\* C21: when the service lookup reports more than one service, the walk
\* goes on with the first one (it returns no error but that of a closed
\* connection or of a rejected request), and every characteristic and
\* descriptor request of the walk lies in the first service's handle range.
C21_FirstServiceTaken ==
    /\ SeveralServices =>
         /\ pc \in {"svc_wait", "loop", "chr_call", "chr_issued", "chr_wait", "returned"}
         /\ pc = "returned" =>
                result \in {ErrResult(Disconnected), ErrResult(Raw(RawBusy))}
         /\ pc # "svc_wait" => svc = table.services[1]
    /\ (Len(table.services) > 1 /\ svc # NoSvc) =>
         /\ svc = table.services[1]
         /\ \A r \in RangedRequests \ {[start |-> 0, end |-> 0]} :
                table.services[1].start <= r.start /\ r.end <= table.services[1].end

\* C21: the lookup reported two services, and the walk of the first one
\* asked for its descriptors, reported its characteristic and returned Ok.
C21_Witness ==
    /\ Len(table.services) = 2
    /\ pc = "returned"
    /\ result = OkResult
    /\ svc = table.services[1]
    /\ log = << DescReq(4, 4), CharCall([decl |-> 2, value |-> 3], << 4 >>), CompleteCall >>

\* The message the step that waits at a position of the walk asked for.
ExpectedTag(at) ==
    IF at = "svc_wait" THEN "DiscoverService"
    ELSE IF at = "chr_wait" THEN "DiscoverCharacteristics"
    ELSE "DiscoverDescriptors"

\* C22: the message a waiting step is handed is Disconnected or the
\* completion of the kind of request that step issued, so no step takes the
\* unreachable!() arm, in the first walk on the connection or in a later one.
C22_MessageMatchesRequest ==
    /\ (pc \in WaitPcs /\ inbox.tag # "None") =>
           inbox.tag \in {ExpectedTag(pc), "Disconnected"}
    /\ (pc \in WaitPcs /\ inbox.tag \notin {"None", "Disconnected"}) =>
           WaitArm(ExpectedTag(pc), inbox) = inbox.r
    /\ result.err # Unreachable

\* C22: the step that waits for descriptors, the third kind of request of
\* its walk, was handed the descriptors' completion.
C22_Witness ==
    /\ pc = "dsc_wait"
    /\ inbox.tag = "DiscoverDescriptors"
    /\ portal = "None"
    /\ evt.kind = "descriptors"
    /\ nreq >= 3

====
